---- MODULE Spec2Model ----
(***************************************************************************)
(* Model of the three workbook analysis scripts of medifinance-pro-v2:     *)
(*   analyze_excel.py     account-subject / category column summaries      *)
(*   analyze_formulas.py  formula records and formula-type tally           *)
(*   analyze_sheets.py    sheet-to-sheet reference map                     *)
(*                                                                         *)
(* Python strings are sequences of one-character strings (a Hangul         *)
(* syllable is written romanised, as one element), so that `in`,           *)
(* startswith, slicing and len are computed, not assumed.  A cell value is *)
(* a record [type, val] with type "None", "int" or "str".  A dict (and a   *)
(* Counter) is a sequence of [k, v] entries in insertion order.            *)
(***************************************************************************)
EXTENDS Integers, Sequences, FiniteSets, TLC

VARIABLES
    pc,                    \* position of the running script
    max_row,               \* analyze_excel: max_row of the out and the bun sheet
    row_idx,               \* analyze_excel: the row the running loop is at
    col,                   \* analyze_excel: the cells that loop has read, row -> value
    account_subjects_out,  \* analyze_excel
    account_subjects_bun,  \* analyze_excel
    out_counter,           \* analyze_excel
    bun_counter,           \* analyze_excel
    large_categories,      \* analyze_excel
    large_counter,         \* analyze_excel
    sheetnames,            \* wb.sheetnames
    sheet_idx,             \* analyze_formulas: index into important_sheets
    sheet_name,            \* the sheet being scanned
    ws,                    \* the worksheet last read: rows of cells
    formulas,              \* analyze_formulas: records of the last call
    formula_types,         \* analyze_formulas: tally of the last call
    all_formula_stats,     \* analyze_formulas
    sheet_references       \* analyze_sheets: the dict sheet -> list of each run, in run order

excelVars == <<max_row, row_idx, col, account_subjects_out, account_subjects_bun, out_counter,
               bun_counter, large_categories, large_counter>>
formulaVars == <<sheet_idx, formulas, formula_types, all_formula_stats>>
sheetVars == <<sheet_references>>
wbVars == <<sheetnames, sheet_name, ws>>
vars == <<pc, excelVars, formulaVars, sheetVars, wbVars>>

-----------------------------------------------------------------------------
(* Bounds of the model *)

\* the largest max_row of a summarised sheet
MaxRow == 5
\* rows of a scanned worksheet grid
MaxRows == 2
\* columns of a scanned worksheet grid
MaxCols == 2
\* non-empty cells of a scanned worksheet
MaxNonEmpty == 2

-----------------------------------------------------------------------------
(* Python values and strings *)

PyNone == [type |-> "None", val |-> 0]
PyInt(n) == [type |-> "int", val |-> n]
PyStr(s) == [type |-> "str", val |-> s]

\* bool(value): None, 0 and '' are falsy
Truthy(v) ==
    CASE v.type = "None" -> FALSE
      [] v.type = "int" -> v.val # 0
      [] v.type = "str" -> v.val # <<>>

Digit(d) == <<"0", "1", "2", "3", "4", "5", "6", "7", "8", "9">>[d + 1]

RECURSIVE IntToStr(_)
IntToStr(n) == IF n < 10 THEN <<Digit(n)>> ELSE IntToStr(n \div 10) \o <<Digit(n % 10)>>

\* str(value)
str(v) ==
    CASE v.type = "None" -> <<"N", "o", "n", "e">>
      [] v.type = "int" -> IF v.val < 0 THEN <<"-">> \o IntToStr(-v.val) ELSE IntToStr(v.val)
      [] v.type = "str" -> v.val

\* needle in hay
Contains(needle, hay) ==
    \E i \in 1..(Len(hay) - Len(needle) + 1) :
        SubSeq(hay, i, i + Len(needle) - 1) = needle

\* s.startswith(prefix)
StartsWith(s, prefix) ==
    /\ Len(s) >= Len(prefix)
    /\ SubSeq(s, 1, Len(prefix)) = prefix

\* s[:n]
Slice(s, n) == SubSeq(s, 1, IF Len(s) < n THEN Len(s) ELSE n)

-----------------------------------------------------------------------------
(* dict and Counter, in insertion order *)

Keys(d) == {d[i].k : i \in 1..Len(d)}

\* a Counter that starts with every category at 0
EmptyCounter_AllKeys ==
    <<[k |-> "SUMIFS", v |-> 0], [k |-> "VLOOKUP", v |-> 0], [k |-> "IF", v |-> 0],
      [k |-> "SUM", v |-> 0], [k |-> "SUBTOTAL", v |-> 0], [k |-> "ARITHMETIC", v |-> 0],
      [k |-> "OTHER", v |-> 0]>>

\* Counter()
EmptyCounter == <<>>

\* counter[key], 0 for a missing key
CounterGet(d, key) ==
    IF key \in Keys(d) THEN d[CHOOSE i \in 1..Len(d) : d[i].k = key].v ELSE 0

\* counter[key] += 1
CounterInc(d, key) ==
    IF key \in Keys(d)
    THEN [i \in 1..Len(d) |-> IF d[i].k = key THEN [k |-> key, v |-> d[i].v + 1] ELSE d[i]]
    ELSE Append(d, [k |-> key, v |-> 1])

\* d[key] = value
DictSet(d, key, value) ==
    IF key \in Keys(d)
    THEN [i \in 1..Len(d) |-> IF d[i].k = key THEN [k |-> key, v |-> value] ELSE d[i]]
    ELSE Append(d, [k |-> key, v |-> value])

RECURSIVE CounterOf(_, _)
\* Counter(items), folded over items from the left
CounterOf(items, acc) ==
    IF items = <<>> THEN acc ELSE CounterOf(Tail(items), CounterInc(acc, Head(items)))

RECURSIVE SumValues(_)
\* sum(d.values())
SumValues(d) == IF d = <<>> THEN 0 ELSE Head(d).v + SumValues(Tail(d))

-----------------------------------------------------------------------------
(* Workbooks *)

\* sheet names; each Hangul syllable is one element, written romanised
Chul == <<"chul">>
Bun == <<"bun">>
MaechulTotal == <<"mae", "chul", "nae", "yeok", "t", "o", "t", "a", "l">>
MonthlySummary == <<"wol", "byeol", "yo", "yak", "son", "ik", "gye", "san", "seo", "(", "chu", "jeong", ")">>
TrendAnalysis == <<"son", "ik", "gye", "san", "seo", "chu", "i", "bun", "seok">>
ManagementAnalysis == <<"gyeong", "yeong", "bun", "seok">>
SiteSummary == <<"sa", "eop", "jang", "yo", "yak", "hyeon", "hwang">>

\* the sheets of the workbook, in workbook order
AllSheetNames ==
    <<Chul, Bun, MaechulTotal, MonthlySummary, TrendAnalysis, ManagementAnalysis,
      SiteSummary>>

\* the elements of a list
Elems(seq) == {seq[i] : i \in 1..Len(seq)}

\* the workbook's sheet list when it holds the sheets of present
SheetList(present) ==
    LET Keep(name) == name \in present IN SelectSeq(AllSheetNames, Keep)

Positions == (1..MaxRows) \X (1..MaxCols)

\* the grid that holds cells[p] at each position p of DOMAIN cells, None elsewhere
Grid(cells) ==
    [r \in 1..MaxRows |->
        [c \in 1..MaxCols |->
            IF <<r, c>> \in DOMAIN cells THEN cells[<<r, c>>] ELSE PyNone]]

\* the worksheets with at most MaxNonEmpty cells, each holding one of values
Worksheets(values) ==
    {Grid(cells) :
        cells \in UNION {[P -> values] :
                    P \in {Q \in SUBSET Positions : Cardinality(Q) <= MaxNonEmpty}}}

-----------------------------------------------------------------------------
(* analyze_formulas.py *)

kSUMIFS == <<"S", "U", "M", "I", "F", "S">>
kVLOOKUP == <<"V", "L", "O", "O", "K", "U", "P">>
kIF == <<"I", "F", "(">>
kSUM == <<"S", "U", "M", "(">>
kSUBTOTAL == <<"S", "U", "B", "T", "O", "T", "A", "L">>

\* formula[:100] and len(formula) > 100
MaxFormulaLen == 100

\* the test of line 17 without startswith('=')
IsFormulaCell_AnyString(value) == Truthy(value) /\ value.type = "str"

\* if cell.value and isinstance(cell.value, str) and cell.value.startswith('=')
IsFormulaCell(value) ==
    /\ Truthy(value)
    /\ value.type = "str"
    /\ StartsWith(value.val, <<"=">>)

\* the text of line 21 with >= for >
TruncatedText_AtLimit(formula) ==
    Slice(formula, MaxFormulaLen)
        \o (IF Len(formula) >= MaxFormulaLen THEN <<".", ".", ".">> ELSE <<>>)

\* formula[:100] + ('...' if len(formula) > 100 else '')
TruncatedText(formula) ==
    Slice(formula, MaxFormulaLen)
        \o (IF Len(formula) > MaxFormulaLen THEN <<".", ".", ".">> ELSE <<>>)

\* the chain of lines 25-38 with 'IF(' tested before 'SUMIFS'
FormulaType_IfFirst(formula) ==
    IF Contains(kIF, formula) THEN "IF"
    ELSE IF Contains(kSUMIFS, formula) THEN "SUMIFS"
    ELSE IF Contains(kVLOOKUP, formula) THEN "VLOOKUP"
    ELSE IF Contains(kSUM, formula) THEN "SUM"
    ELSE IF Contains(kSUBTOTAL, formula) THEN "SUBTOTAL"
    ELSE IF \/ Contains(<<"+">>, formula) \/ Contains(<<"-">>, formula)
            \/ Contains(<<"*">>, formula) \/ Contains(<<"/">>, formula) THEN "ARITHMETIC"
    ELSE "OTHER"

\* lines 25-38: the key of formula_types that is incremented
FormulaType(formula) ==
    IF Contains(kSUMIFS, formula) THEN "SUMIFS"
    ELSE IF Contains(kVLOOKUP, formula) THEN "VLOOKUP"
    ELSE IF Contains(kIF, formula) THEN "IF"
    ELSE IF Contains(kSUM, formula) THEN "SUM"
    ELSE IF Contains(kSUBTOTAL, formula) THEN "SUBTOTAL"
    ELSE IF \/ Contains(<<"+">>, formula) \/ Contains(<<"-">>, formula)
            \/ Contains(<<"*">>, formula) \/ Contains(<<"/">>, formula) THEN "ARITHMETIC"
    ELSE "OTHER"

ColumnLetters ==
    <<"A", "B", "C", "D", "E", "F", "G", "H", "I", "J", "K", "L", "M",
      "N", "O", "P", "Q", "R", "S", "T", "U", "V", "W", "X", "Y", "Z">>

\* cell.coordinate, for the first 26 columns
coordinate(row, column) == <<ColumnLetters[column]>> \o IntToStr(row)

\* lines 17-38 for one cell: acc is [formulas, formula_types]
ScanCell(value, row, column, acc) ==
    IF IsFormulaCell(value)
    THEN [formulas |->
             Append(acc.formulas,
                    [cell |-> coordinate(row, column),
                     formula |-> TruncatedText(value.val)]),
          formula_types |-> CounterInc(acc.formula_types, FormulaType(value.val))]
    ELSE acc

RECURSIVE ScanRow(_, _, _, _)
\* for cell in row, from column on
ScanRow(sheet, row, column, acc) ==
    IF column > Len(sheet[row]) THEN acc
    ELSE ScanRow(sheet, row, column + 1, ScanCell(sheet[row][column], row, column, acc))

RECURSIVE ScanRows(_, _, _)
\* for row in ws.iter_rows(), from row on
ScanRows(sheet, row, acc) ==
    IF row > Len(sheet) THEN acc
    ELSE ScanRows(sheet, row + 1, ScanRow(sheet, row, 1, acc))

\* analyze_formulas_detailed(ws, sheet_name): (formulas, formula_types)
analyze_formulas_detailed(sheet) ==
    ScanRows(sheet, 1, [formulas |-> <<>>, formula_types |-> EmptyCounter])

\* important_sheets
important_sheets == <<Chul, MonthlySummary, TrendAnalysis, ManagementAnalysis>>

\* the test of line 50 taken as always true
SheetInWorkbook_Always(name, names) == TRUE

\* if sheet_name in wb.sheetnames
SheetInWorkbook(name, names) == name \in Elems(names)

(* Cell contents the scanned worksheets are built from *)

\* =IF(SUMIFS(A:A,B:B,1)>0,SUM(A:A),0)
F_SUMIFS == <<"=", "I", "F", "(", "S", "U", "M", "I", "F", "S", "(", "A", ":", "A", ",", "B", ":", "B", ",", "1", ")", ">", "0", ",", "S", "U", "M", "(", "A", ":", "A", ")", ",", "0", ")">>

\* =VLOOKUP(A1,B:C,2)+IF(A1,1,0)
F_VLOOKUP == <<"=", "V", "L", "O", "O", "K", "U", "P", "(", "A", "1", ",", "B", ":", "C", ",", "2", ")", "+", "I", "F", "(", "A", "1", ",", "1", ",", "0", ")">>

\* =IF(A1>0,SUM(B:B),0)
F_IF == <<"=", "I", "F", "(", "A", "1", ">", "0", ",", "S", "U", "M", "(", "B", ":", "B", ")", ",", "0", ")">>

\* =SUM(A1:A2)*2
F_SUM == <<"=", "S", "U", "M", "(", "A", "1", ":", "A", "2", ")", "*", "2">>

\* =SUBTOTAL(9,A:A)/2
F_SUBTOTAL == <<"=", "S", "U", "B", "T", "O", "T", "A", "L", "(", "9", ",", "A", ":", "A", ")", "/", "2">>

\* =SUMIF(A:A,1,B:B)
F_SUMIF == <<"=", "S", "U", "M", "I", "F", "(", "A", ":", "A", ",", "1", ",", "B", ":", "B", ")">>

\* =A1-B1
F_ARITH == <<"=", "A", "1", "-", "B", "1">>

\* =A1
F_OTHER == <<"=", "A", "1">>

\* SUM(A1)
T_TEXT == <<"S", "U", "M", "(", "A", "1", ")">>

\* =1+1+1+...: an arithmetic formula of n characters
LongFormula(n) == [i \in 1..n |-> IF i = 1 THEN "=" ELSE IF i % 2 = 0 THEN "1" ELSE "+"]

\* values of the cells of a worksheet scanned for its formulas
FormulaSheetValues ==
    {PyInt(5), PyStr(T_TEXT),
     PyStr(F_SUMIFS), PyStr(F_VLOOKUP), PyStr(F_IF), PyStr(F_SUM), PyStr(F_SUBTOTAL),
     PyStr(F_SUMIF), PyStr(F_ARITH), PyStr(F_OTHER)}

\* values of the cells of a worksheet with formulas around the length limit
LongSheetValues ==
    {PyStr(T_TEXT), PyStr(F_OTHER),
     PyStr(LongFormula(MaxFormulaLen)), PyStr(LongFormula(MaxFormulaLen + 1)),
     PyStr(LongFormula(MaxFormulaLen + 50))}

\* values of the cells of the worksheets of a workbook with several listed sheets
LightSheetValues == {PyStr(F_ARITH)}

FormulaSheets == Worksheets(FormulaSheetValues)

LongSheets == Worksheets(LongSheetValues)

LightSheets == Worksheets(LightSheetValues)

-----------------------------------------------------------------------------
(* analyze_excel.py *)

\* the header label that recurs in the account-subject column (gye-jeong-gwa-mok,
\* "account subject"); each Hangul syllable, one Python character, is one element
AccountHeader == <<"gye", "jeong", "gwa", "mok">>

\* first data row of the chul (out) sheet: range(4, ws_out.max_row + 1)
OutStartRow == 4
\* first data row of the bun (split) sheet: range(2, ws_bun.max_row + 1)
BunStartRow == 2

\* the test of line 16 without its comparison to the header label
IsAccountSubject_NoSentinel(account) == Truthy(account)

\* if account and str(account) != AccountHeader
IsAccountSubject(account) == Truthy(account) /\ str(account) # AccountHeader

\* if category
IsCategory(category) == Truthy(category)

\* values a cell of a summarised column may hold
ColumnValues == {PyNone, PyInt(0), PyInt(7), PyStr(AccountHeader), PyStr(<<"geup", "yeo">>)}

\* the cells read so far by the running loop: row -> value
NoCells == [r \in {} |-> PyNone]

NoFormulaState ==
    /\ sheet_idx = 0 /\ formulas = <<>> /\ formula_types = <<>>
    /\ all_formula_stats = <<>>
NoSheetState == sheet_references = <<>>
NoWorkbookState == sheetnames = <<>> /\ sheet_name = <<>> /\ ws = <<>>
NoExcelState ==
    /\ max_row = <<>> /\ row_idx = 0 /\ col = <<>>
    /\ account_subjects_out = <<>> /\ account_subjects_bun = <<>>
    /\ out_counter = <<>> /\ bun_counter = <<>>
    /\ large_categories = <<>> /\ large_counter = <<>>

\* lines 7-13: the workbook is loaded; each sheet has its max_row
InitExcel ==
    /\ pc = "out"
    /\ max_row \in [{"out", "bun"} -> 1..MaxRow]
    /\ row_idx = OutStartRow
    /\ col = NoCells
    /\ account_subjects_out = <<>> /\ account_subjects_bun = <<>>
    /\ out_counter = <<>> /\ bun_counter = <<>>
    /\ large_categories = <<>> /\ large_counter = <<>>
    /\ NoFormulaState /\ NoSheetState /\ NoWorkbookState

\* lines 14-17: one row of column 10 of the out sheet
ScanOutRow ==
    /\ pc = "out"
    /\ row_idx <= max_row["out"]
    /\ \E account \in ColumnValues :
        /\ col' = (row_idx :> account) @@ col
        /\ account_subjects_out' =
              IF IsAccountSubject(account)
              THEN Append(account_subjects_out, str(account))
              ELSE account_subjects_out
    /\ row_idx' = row_idx + 1
    /\ UNCHANGED <<pc, max_row, account_subjects_bun, out_counter, bun_counter,
                   large_categories, large_counter>>
    /\ UNCHANGED <<formulaVars, sheetVars, wbVars>>

\* lines 19-22: the loop over the out sheet ends, the one over the bun sheet starts
StartBun ==
    /\ pc = "out"
    /\ row_idx > max_row["out"]
    /\ pc' = "bun"
    /\ row_idx' = BunStartRow
    /\ col' = NoCells
    /\ UNCHANGED <<max_row, account_subjects_out, account_subjects_bun, out_counter,
                   bun_counter, large_categories, large_counter>>
    /\ UNCHANGED <<formulaVars, sheetVars, wbVars>>

\* lines 22-25: one row of column 10 of the bun sheet
ScanBunRow ==
    /\ pc = "bun"
    /\ row_idx <= max_row["bun"]
    /\ \E account \in ColumnValues :
        /\ col' = (row_idx :> account) @@ col
        /\ account_subjects_bun' =
              IF IsAccountSubject(account)
              THEN Append(account_subjects_bun, str(account))
              ELSE account_subjects_bun
    /\ row_idx' = row_idx + 1
    /\ UNCHANGED <<pc, max_row, account_subjects_out, out_counter, bun_counter,
                   large_categories, large_counter>>
    /\ UNCHANGED <<formulaVars, sheetVars, wbVars>>

\* lines 27-45: the two counters are built and printed, the loop over column 9 starts
CountAccounts ==
    /\ pc = "bun"
    /\ row_idx > max_row["bun"]
    /\ out_counter' = CounterOf(account_subjects_out, EmptyCounter)
    /\ bun_counter' = CounterOf(account_subjects_bun, EmptyCounter)
    /\ pc' = "large"
    /\ row_idx' = OutStartRow
    /\ col' = NoCells
    /\ UNCHANGED <<max_row, account_subjects_out, account_subjects_bun,
                   large_categories, large_counter>>
    /\ UNCHANGED <<formulaVars, sheetVars, wbVars>>

\* lines 45-48: one row of column 9 of the out sheet
ScanLargeRow ==
    /\ pc = "large"
    /\ row_idx <= max_row["out"]
    /\ \E category \in ColumnValues :
        /\ col' = (row_idx :> category) @@ col
        /\ large_categories' =
              IF IsCategory(category)
              THEN Append(large_categories, str(category))
              ELSE large_categories
    /\ row_idx' = row_idx + 1
    /\ UNCHANGED <<pc, max_row, account_subjects_out, account_subjects_bun,
                   out_counter, bun_counter, large_counter>>
    /\ UNCHANGED <<formulaVars, sheetVars, wbVars>>

\* lines 50-52: the counter of column 9 (lines 54-64 repeat lines 42-52 for
\* column 8 and are left out)
CountLarge ==
    /\ pc = "large"
    /\ row_idx > max_row["out"]
    /\ large_counter' = CounterOf(large_categories, EmptyCounter)
    /\ pc' = "done"
    /\ UNCHANGED <<max_row, row_idx, col, account_subjects_out, account_subjects_bun,
                   out_counter, bun_counter, large_categories>>
    /\ UNCHANGED <<formulaVars, sheetVars, wbVars>>

NextExcel ==
    \/ ScanOutRow \/ StartBun \/ ScanBunRow \/ CountAccounts
    \/ ScanLargeRow \/ CountLarge

SpecExcel == InitExcel /\ [][NextExcel]_vars

\* rows read by the running loop whose cell is the header label
HeaderRows == {r \in DOMAIN col : str(col[r]) = AccountHeader}

\* rows read by the running loop whose cell is not None
NonEmptyRows == {r \in DOMAIN col : col[r].type # "None"}

\* C6: in the account-subject summaries of the out and the bun sheet the
\* header label is never counted, however many rows hold it: it is no element
\* of either list, no key of either counter, and the rows holding it add
\* nothing to the total, which each counter sums up to.
C6_SentinelNeverCounted ==
    /\ \A i \in 1..Len(account_subjects_out) : account_subjects_out[i] # AccountHeader
    /\ \A i \in 1..Len(account_subjects_bun) : account_subjects_bun[i] # AccountHeader
    /\ AccountHeader \notin (Keys(out_counter) \cup Keys(bun_counter))
    /\ pc = "out" =>
          Len(account_subjects_out) <= Cardinality(DOMAIN col \ HeaderRows)
    /\ pc = "bun" =>
          Len(account_subjects_bun) <= Cardinality(DOMAIN col \ HeaderRows)
    /\ pc \in {"large", "done"} =>
          /\ SumValues(out_counter) = Len(account_subjects_out)
          /\ SumValues(bun_counter) = Len(account_subjects_bun)

\* the bun loop has finished over a column with the header label in two or
\* more data rows and a counted value beside them
C6_Witness ==
    /\ pc = "bun"
    /\ row_idx > max_row["bun"]
    /\ Cardinality(HeaderRows) >= 2
    /\ account_subjects_bun # <<>>

\* C7: the number of counted occurrences is the number of cells of rows
\* start_row..max_row that are not empty (not None, a numeric 0 included) and
\* not the sentinel, at every row the loop has reached.
C7_CountsEveryNonEmptyCell ==
    /\ pc = "out" =>
          Len(account_subjects_out) = Cardinality(NonEmptyRows \ HeaderRows)
    /\ pc = "bun" =>
          Len(account_subjects_bun) = Cardinality(NonEmptyRows \ HeaderRows)
    /\ pc = "large" =>
          Len(large_categories) = Cardinality(NonEmptyRows)

-----------------------------------------------------------------------------
(* analyze_formulas.py, lines 42-83 *)

\* dict(formula_types): the same keys and counts, in the same order
dict(counter) == [i \in 1..Len(counter) |-> [k |-> counter[i].k, v |-> counter[i].v]]

FormulasStart ==
    /\ pc = "loop"
    /\ sheet_idx = 1
    /\ sheet_name = <<>> /\ ws = <<>>
    /\ formulas = <<>> /\ formula_types = <<>>
    /\ all_formula_stats = <<>>
    /\ NoExcelState /\ NoSheetState

\* line 8: a workbook with any of the listed sheets, and the bun sheet
InitFormulas ==
    /\ sheetnames \in {SheetList(P \cup {Bun}) : P \in SUBSET Elems(important_sheets)}
    /\ FormulasStart

\* line 8: a workbook with the last of the listed sheets, and the bun sheet
InitOneSheet ==
    /\ sheetnames = SheetList({important_sheets[Len(important_sheets)], Bun})
    /\ FormulasStart

\* lines 49-68: the loop body for a listed sheet of the workbook, which is
\* any of sheets; wb[sheet_name] raises KeyError for a sheet it has not
AnalyzeSheet(sheets) ==
    /\ pc = "loop"
    /\ sheet_idx <= Len(important_sheets)
    /\ SheetInWorkbook(important_sheets[sheet_idx], sheetnames)
    /\ sheet_name' = important_sheets[sheet_idx]
    /\ IF important_sheets[sheet_idx] \notin Elems(sheetnames)
       THEN /\ pc' = "KeyError"
            /\ UNCHANGED <<ws, formulaVars>>
       ELSE /\ \E sheet \in sheets :
                \E result \in {analyze_formulas_detailed(sheet)} :
                /\ ws' = sheet
                /\ formulas' = result.formulas
                /\ formula_types' = result.formula_types
                /\ all_formula_stats' =
                      DictSet(all_formula_stats, important_sheets[sheet_idx],
                              [total_formulas |-> Len(result.formulas),
                               formula_types |-> dict(result.formula_types)])
            /\ sheet_idx' = sheet_idx + 1
            /\ pc' = pc
    /\ UNCHANGED <<sheetnames, excelVars, sheetVars>>

AnalyzeLightSheet == AnalyzeSheet(LightSheets)

AnalyzeAnySheet == AnalyzeSheet(FormulaSheets)

AnalyzeLongSheet == AnalyzeSheet(LongSheets)

\* lines 49-50: a listed sheet the workbook has not is passed over
SkipSheet ==
    /\ pc = "loop"
    /\ sheet_idx <= Len(important_sheets)
    /\ ~SheetInWorkbook(important_sheets[sheet_idx], sheetnames)
    /\ sheet_name' = important_sheets[sheet_idx]
    /\ sheet_idx' = sheet_idx + 1
    /\ UNCHANGED <<pc, sheetnames, ws, formulas, formula_types, all_formula_stats>>
    /\ UNCHANGED <<excelVars, sheetVars>>

\* lines 70-83: the loop is over; the statistics are printed
DumpStats ==
    /\ pc = "loop"
    /\ sheet_idx > Len(important_sheets)
    /\ pc' = "done"
    /\ UNCHANGED <<formulaVars, wbVars, excelVars, sheetVars>>

NextFormulas == AnalyzeLightSheet \/ SkipSheet \/ DumpStats

SpecFormulas == InitFormulas /\ [][NextFormulas]_vars

NextOneSheet == AnalyzeAnySheet \/ SkipSheet \/ DumpStats

SpecOneSheet == InitOneSheet /\ [][NextOneSheet]_vars

NextLongFormulas == AnalyzeLongSheet \/ SkipSheet \/ DumpStats

SpecLongFormulas == InitOneSheet /\ [][NextLongFormulas]_vars

(* Properties of the worksheet last analysed *)

\* the positions of ws
CellPositions == {<<r, c>> : r \in 1..Len(ws), c \in 1..MaxCols}

\* the positions of ws that hold a string starting with '='
FormulaPositions ==
    {p \in CellPositions :
        /\ ws[p[1]][p[2]].type = "str"
        /\ Len(ws[p[1]][p[2]].val) >= 1
        /\ ws[p[1]][p[2]].val[1] = "="}

FormulaAt(p) == ws[p[1]][p[2]].val

Categories == {"SUMIFS", "VLOOKUP", "IF", "SUM", "SUBTOTAL", "ARITHMETIC", "OTHER"}

RuleOrder == <<"SUMIFS", "VLOOKUP", "IF", "SUM", "SUBTOTAL", "ARITHMETIC", "OTHER">>

HasFunction(f) ==
    \/ Contains(kSUMIFS, f) \/ Contains(kVLOOKUP, f) \/ Contains(kIF, f)
    \/ Contains(kSUM, f) \/ Contains(kSUBTOTAL, f)

HasOperator(f) == \E i \in 1..Len(f) : f[i] \in {"+", "-", "*", "/"}

\* whether rule i of the fixed order matches f
RuleMatches(i, f) ==
    CASE i = 1 -> Contains(kSUMIFS, f)
      [] i = 2 -> Contains(kVLOOKUP, f)
      [] i = 3 -> Contains(kIF, f)
      [] i = 4 -> Contains(kSUM, f)
      [] i = 5 -> Contains(kSUBTOTAL, f)
      [] i = 6 -> HasOperator(f)
      [] i = 7 -> TRUE

\* the category of the first rule that matches f
FirstMatch(f) ==
    LET matching == {i \in 1..7 : RuleMatches(i, f)}
    IN  RuleOrder[CHOOSE i \in matching : \A j \in matching : i <= j]

\* the category of the first matching rule, for each formula cell of ws
FirstMatches == [p \in FormulaPositions |-> FirstMatch(FormulaAt(p))]

\* the entry of all_formula_stats written last
LastStats == all_formula_stats[Len(all_formula_stats)].v

\* C1: after a sheet is scanned, the tally sums to the number of its formula
\* cells, which is the length of the record list and the total_formulas
\* stored for the sheet.
C1_TallySumsToFormulaCells ==
    ws # <<>> =>
        /\ SumValues(formula_types) = Cardinality(FormulaPositions)
        /\ Len(formulas) = Cardinality(FormulaPositions)
        /\ LastStats.total_formulas = Cardinality(FormulaPositions)
        /\ SumValues(LastStats.formula_types) = LastStats.total_formulas

\* a sheet with two formula cells of two categories was scanned
C1_Witness ==
    /\ ws # <<>>
    /\ Cardinality(FormulaPositions) = 2
    /\ Len(formula_types) = 2
    /\ LastStats.total_formulas = 2

\* C2: each formula is counted under the first matching rule of the order
\* SUMIFS, VLOOKUP, IF(, SUM(, SUBTOTAL, operator, OTHER: every formula with
\* SUMIFS in it counts as SUMIFS, whatever else it holds, and every formula
\* with an operator and none of the five function substrings as ARITHMETIC.
C2_FirstMatchingRuleWins ==
    ws # <<>> =>
        /\ \E first \in {FirstMatches} :
              \A cat \in Categories :
                  CounterGet(formula_types, cat) =
                      Cardinality({p \in FormulaPositions : first[p] = cat})
        /\ CounterGet(formula_types, "SUMIFS") =
              Cardinality({p \in FormulaPositions : Contains(kSUMIFS, FormulaAt(p))})
        /\ CounterGet(formula_types, "ARITHMETIC") =
              Cardinality({p \in FormulaPositions :
                              HasOperator(FormulaAt(p)) /\ ~HasFunction(FormulaAt(p))})

\* a sheet was scanned that holds a SUMIFS formula with IF( and SUM( in it and
\* a formula with an operator and no function
C2_Witness ==
    /\ ws # <<>>
    /\ \E p \in FormulaPositions :
          /\ Contains(kSUMIFS, FormulaAt(p))
          /\ Contains(kIF, FormulaAt(p))
          /\ Contains(kSUM, FormulaAt(p))
    /\ \E p \in FormulaPositions : HasOperator(FormulaAt(p)) /\ ~HasFunction(FormulaAt(p))
    /\ CounterGet(formula_types, "SUMIFS") = 1
    /\ CounterGet(formula_types, "ARITHMETIC") = 1

KeyList(d) == [i \in 1..Len(d) |-> d[i].k]

\* C9: a listed sheet the workbook has not is passed over without a failure:
\* the keys of the statistics are the listed names the workbook has, among
\* those the loop has reached, in list order.
C9_MissingSheetsSkipped ==
    /\ pc # "KeyError"
    /\ LET InWorkbook(name) == name \in Elems(sheetnames) IN
       KeyList(all_formula_stats) =
           SelectSeq(SubSeq(important_sheets, 1, sheet_idx - 1), InWorkbook)

\* the run is over for a workbook that lacks a listed sheet between two it has
C9_Witness ==
    /\ pc = "done"
    /\ \E i, j, k \in 1..Len(important_sheets) :
          /\ i < j /\ j < k
          /\ important_sheets[i] \in Elems(sheetnames)
          /\ important_sheets[j] \notin Elems(sheetnames)
          /\ important_sheets[k] \in Elems(sheetnames)
    /\ Len(all_formula_stats) >= 2

\* p comes before q in a row by row scan
ScannedBefore(p, q) == p[1] < q[1] \/ (p[1] = q[1] /\ p[2] < q[2])

\* the i-th formula cell of ws in a row by row scan
NthFormulaPosition(i) ==
    CHOOSE p \in FormulaPositions :
        Cardinality({q \in FormulaPositions : ScannedBefore(q, p)}) = i - 1

\* C10: there is one record per formula cell, in row by row scan order; its
\* text is the formula itself when that has 100 characters or fewer, and its
\* first 100 characters followed by '...' when it has more.
C10_RecordsTruncatedInScanOrder ==
    ws # <<>> =>
        /\ Len(formulas) = Cardinality(FormulaPositions)
        /\ \A i \in 1..Len(formulas) :
              LET p == NthFormulaPosition(i)
                  f == FormulaAt(p)
                  text == formulas[i].formula
              IN  /\ formulas[i].cell = coordinate(p[1], p[2])
                  /\ Len(f) <= 100 => text = f
                  /\ Len(f) > 100 =>
                        /\ Len(text) = 103
                        /\ SubSeq(text, 1, 100) = SubSeq(f, 1, 100)
                        /\ SubSeq(text, 101, 103) = <<".", ".", ".">>

\* a sheet was scanned whose first row ends in a formula of more than 100
\* characters and whose second row starts with one of exactly 100
C10_Witness ==
    /\ ws # <<>>
    /\ Len(formulas) = 2
    /\ Len(formulas[1].formula) = 103
    /\ formulas[1].cell = <<"B", "1">>
    /\ Len(formulas[2].formula) = 100
    /\ formulas[2].cell = <<"A", "2">>
    /\ formulas[2].formula = FormulaAt(<<2, 1>>)

-----------------------------------------------------------------------------
(* analyze_sheets.py, lines 37-61 *)

\* the sheets of the loop of line 43
scanned_sheets == <<Chul, Bun, MaechulTotal, MonthlySummary, SiteSummary>>

\* sheets the workbook may hold besides
OtherSheets == {TrendAnalysis, ManagementAnalysis}

\* the test of line 53 without other_sheet != sheet_name
IsReference_NoSelfTest(other_sheet, current, formula) == Contains(other_sheet, formula)

\* the test of line 53 looking for the name followed by '!'
IsReference_Qualified(other_sheet, current, formula) ==
    other_sheet # current /\ Contains(other_sheet \o <<"!">>, formula)

\* if other_sheet != sheet_name and other_sheet in formula
IsReference(other_sheet, current, formula) ==
    other_sheet # current /\ Contains(other_sheet, formula)

\* lines 49-54 for one cell: references after the cell
AddReferences(value, current, names, references) ==
    IF IsFormulaCell(value)
    THEN references \cup
            {names[i] : i \in {j \in 1..Len(names) : IsReference(names[j], current, value.val)}}
    ELSE references

RECURSIVE RefsOfRow(_, _, _, _, _, _)
\* for cell in row, from column on
RefsOfRow(sheet, row, column, current, names, references) ==
    IF column > Len(sheet[row]) THEN references
    ELSE RefsOfRow(sheet, row, column + 1, current, names,
                   AddReferences(sheet[row][column], current, names, references))

RECURSIVE RefsOfRows(_, _, _, _, _)
\* for row in ws.iter_rows(), from row on
RefsOfRows(sheet, row, current, names, references) ==
    IF row > Len(sheet) THEN references
    ELSE RefsOfRows(sheet, row + 1, current, names,
                    RefsOfRow(sheet, row, 1, current, names, references))

\* list(references): a set of strings is listed in an order that depends on
\* the hash seed of the process, any order
ListsOf(references) ==
    {order \in [1..Cardinality(references) -> references] :
        \A i, j \in 1..Cardinality(references) : order[i] = order[j] => i = j}

\* =chul!A1+bun!B1
R_TWO == <<"=">> \o Chul \o <<"!", "A", "1", "+">> \o Bun \o <<"!", "B", "1">>

\* =MaechulTotal!A1
R_SALES == <<"=">> \o MaechulTotal \o <<"!", "A", "1">>

\* =ManagementAnalysis!A1
R_MANAGEMENT == <<"=">> \o ManagementAnalysis \o <<"!", "A", "1">>

\* values of the cells of a worksheet scanned for its references
ReferenceSheetValues ==
    {PyStr(Bun), PyStr(R_TWO), PyStr(R_SALES), PyStr(R_MANAGEMENT), PyStr(F_SUM)}

ReferenceSheets == Worksheets(ReferenceSheetValues)

\* lines 7, 38: the workbook holds the scanned sheets; one of them, with its
\* cells, is followed through the loop of line 43
InitSheets ==
    /\ pc = "scan"
    /\ sheetnames \in {SheetList(Elems(scanned_sheets) \cup P) : P \in SUBSET OtherSheets}
    /\ sheet_name \in Elems(scanned_sheets)
    /\ ws \in ReferenceSheets
    /\ sheet_references = <<>>
    /\ NoExcelState /\ NoFormulaState

\* lines 43-56: the loop body for sheet_name, in the run that is under way
ScanSheet ==
    /\ pc = "scan"
    /\ \E order \in ListsOf(RefsOfRows(ws, 1, sheet_name, sheetnames, {})) :
          sheet_references' = Append(sheet_references, DictSet(<<>>, sheet_name, order))
    /\ pc' = "print"
    /\ UNCHANGED <<wbVars, excelVars, formulaVars>>

\* lines 58-61: the reference lists are printed
PrintReferences ==
    /\ pc = "print"
    /\ pc' = "done"
    /\ UNCHANGED <<sheet_references, wbVars, excelVars, formulaVars>>

\* the script is run again on the workbook, unchanged
RunAgain ==
    /\ pc = "done"
    /\ Len(sheet_references) = 1
    /\ pc' = "scan"
    /\ UNCHANGED <<sheet_references, wbVars, excelVars, formulaVars>>

NextSheets == ScanSheet \/ PrintReferences

SpecSheets == InitSheets /\ [][NextSheets]_vars

NextRerun == ScanSheet \/ PrintReferences \/ RunAgain

SpecRerun == InitSheets /\ [][NextRerun]_vars

\* the reference list of sheet_name in run n
ReferenceList(n) == sheet_references[n][1].v

\* C4: no scanned sheet is listed among its own reference targets, whatever
\* its formulas hold.
C4_NoSelfReference ==
    \A n \in 1..Len(sheet_references) :
        \A i \in 1..Len(ReferenceList(n)) : ReferenceList(n)[i] # sheet_name

\* a sheet was scanned that has its own name in one of its formulas and
\* another sheet to refer to
C4_Witness ==
    /\ Len(sheet_references) = 1
    /\ \E p \in FormulaPositions : Contains(sheet_name, FormulaAt(p))
    /\ ReferenceList(1) # <<>>

\* C5: the reference targets of a scanned sheet S are the workbook's sheet
\* names other than S that occur as a substring of a formula cell of S, each
\* listed once: a name inside a longer sheet name counts, a name in a cell
\* that is no formula does not.
C5_ReferencesAreSubstringMatches ==
    \A n \in 1..Len(sheet_references) :
        /\ Elems(ReferenceList(n)) =
              {name \in Elems(sheetnames) :
                  /\ name # sheet_name
                  /\ \E p \in FormulaPositions : Contains(name, FormulaAt(p))}
        /\ Len(ReferenceList(n)) = Cardinality(Elems(ReferenceList(n)))

\* a sheet was scanned whose one formula names the sales sheet, whose name
\* holds the name of the out sheet, and that has the name of the bun sheet in
\* a cell that is no formula
C5_Witness ==
    /\ Len(sheet_references) = 1
    /\ sheet_name = SiteSummary
    /\ \E p \in FormulaPositions : FormulaAt(p) = R_SALES
    /\ \E p \in CellPositions \ FormulaPositions : ws[p[1]][p[2]] = PyStr(Bun)
    /\ Elems(ReferenceList(1)) = {MaechulTotal, Chul}

\* C8: a second run on the unchanged workbook gives the output of the first,
\* the order of each reference list included.
C8_RerunGivesSameOutput ==
    Len(sheet_references) = 2 => sheet_references[2] = sheet_references[1]

====
